---- MODULE Spec2Model ----
(***************************************************************************)
(* State-machine model of desktopApp.py (AssureVision): status-text        *)
(* classification, folder ingestion, filtering and the aggregated views.   *)
(* Strings are sequences of one-character strings, so that split, strip,   *)
(* replace and upper are computed as Python computes them.                 *)
(***************************************************************************)
EXTENDS Integers, Sequences, FiniteSets, TLC

\* ------------------------------------------------------------------------
\* Python str operations used by the program
\* ------------------------------------------------------------------------
LowerCase == <<"a","b","c","d","e","f","g","h","i","j","k","l","m",
               "n","o","p","q","r","s","t","u","v","w","x","y","z">>

UpperCase == <<"A","B","C","D","E","F","G","H","I","J","K","L","M",
               "N","O","P","Q","R","S","T","U","V","W","X","Y","Z">>

\* characters str.strip() removes
Whitespace == {" ", "\t", "\n", "\r"}

\* the letters' upper-case and lower-case forms
to_upper == [c \in {LowerCase[i] : i \in 1..Len(LowerCase)} |->
                UpperCase[CHOOSE i \in 1..Len(LowerCase) : LowerCase[i] = c]]

to_lower == [c \in {UpperCase[i] : i \in 1..Len(UpperCase)} |->
                LowerCase[CHOOSE i \in 1..Len(UpperCase) : UpperCase[i] = c]]

upper_char(c) == IF c \in DOMAIN to_upper THEN to_upper[c] ELSE c

lower_char(c) == IF c \in DOMAIN to_lower THEN to_lower[c] ELSE c

\* s.upper()
upper(s) == [i \in 1..Len(s) |-> upper_char(s[i])]

\* s.lower()
lower(s) == [i \in 1..Len(s) |-> lower_char(s[i])]

\* s.replace(" ", "")
remove_spaces(s) == SelectSeq(s, LAMBDA c : c # " ")

\* index of the first character at or after i that is not whitespace, Len(s) + 1 if none
RECURSIVE first_kept(_, _)
first_kept(s, i) ==
    IF i > Len(s) THEN i
    ELSE IF s[i] \notin Whitespace THEN i
    ELSE first_kept(s, i + 1)

\* index of the last character at or before i that is not whitespace, 0 if none
RECURSIVE last_kept(_, _)
last_kept(s, i) ==
    IF i < 1 THEN 0
    ELSE IF s[i] \notin Whitespace THEN i
    ELSE last_kept(s, i - 1)

\* s.strip()
strip(s) ==
    LET lo == first_kept(s, 1)
    IN IF lo > Len(s) THEN <<>> ELSE SubSeq(s, lo, last_kept(s, Len(s)))

\* s.startswith(p)
startswith(s, p) == Len(s) >= Len(p) /\ SubSeq(s, 1, Len(p)) = p

\* s.endswith(p)
endswith(s, p) == Len(s) >= Len(p) /\ SubSeq(s, Len(s) - Len(p) + 1, Len(s)) = p

\* index of the first sep at or after i, 0 if none
RECURSIVE find(_, _, _)
find(s, sep, i) ==
    IF i > Len(s) THEN 0
    ELSE IF s[i] = sep THEN i
    ELSE find(s, sep, i + 1)

\* s.split(sep) for a one-character separator: always at least one piece
RECURSIVE split(_, _)
split(s, sep) ==
    LET i == find(s, sep, 1)
    IN IF i = 0 THEN <<s>>
       ELSE <<SubSeq(s, 1, i - 1)>> \o split(SubSeq(s, i + 1, Len(s)), sep)

\* sep.join(parts)
RECURSIVE join(_, _)
join(parts, sep) ==
    IF parts = <<>> THEN <<>>
    ELSE IF Len(parts) = 1 THEN parts[1]
    ELSE parts[1] \o sep \o join(Tail(parts), sep)

\* [p.strip() for p in text.split(",") if p.strip()]
stripped_labels(text) ==
    LET pieces == split(text, ",")
        stripped == [i \in 1..Len(pieces) |-> strip(pieces[i])]
    IN SelectSeq(stripped, LAMBDA p : p # <<>>)

\* string literals of the program
JOB_PASS_1 == <<"J","O","B",".","P","A","S","S",":","1">>
JOB_FAIL_1 == <<"J","O","B",".","F","A","I","L",":","1">>
JOB_PASS == <<"J","O","B",".","P","A","S","S">>
JOB_FAIL == <<"J","O","B",".","F","A","I","L">>
COLON_OK == <<":","O","K">>
EQUALS_OK == <<"=","O","K">>
DOT_TXT == <<".","t","x","t">>
DOT_BMP == <<".","b","m","p">>

\* ------------------------------------------------------------------------
\* txt_is_pass
\* ------------------------------------------------------------------------
\* the mutated reading: an explicit fail flag is looked at first
txt_is_pass_fail_first(text) ==
    LET labels == stripped_labels(text)
        has_pass == \E i \in 1..Len(labels) :
                        upper(remove_spaces(labels[i])) = JOB_PASS_1
        has_fail == \E i \in 1..Len(labels) :
                        upper(remove_spaces(labels[i])) = JOB_FAIL_1
    IN IF has_fail THEN FALSE
       ELSE IF has_pass THEN TRUE
       ELSE FALSE

txt_is_pass(text) ==
    LET labels == stripped_labels(text)
        has_pass == \E i \in 1..Len(labels) :
                        upper(remove_spaces(labels[i])) = JOB_PASS_1
        has_fail == \E i \in 1..Len(labels) :
                        upper(remove_spaces(labels[i])) = JOB_FAIL_1
    IN IF has_pass THEN TRUE
       ELSE IF has_fail THEN FALSE
       ELSE FALSE

\* ------------------------------------------------------------------------
\* Failure-cause label loops (the same filter is written twice in the code)
\* ------------------------------------------------------------------------
\* the mutated reading: only the exact markers JOB.PASS:1 / JOB.FAIL:1 are skipped
is_cause_label_exact(lbl) ==
    LET up == upper(remove_spaces(lbl))
    IN /\ ~(up = JOB_PASS_1 \/ up = JOB_FAIL_1)
       /\ ~(endswith(up, COLON_OK) \/ endswith(up, EQUALS_OK))

\* the two `continue` tests applied to one label: TRUE when neither fires
is_cause_label(lbl) ==
    LET up == upper(remove_spaces(lbl))
    IN /\ ~(startswith(up, JOB_PASS) \/ startswith(up, JOB_FAIL))
       /\ ~(endswith(up, COLON_OK) \/ endswith(up, EQUALS_OK))

\* parse_folder_data: the labels of one file appended to the aggregated
\* causes, in order, one entry per occurrence
ingest_cause_labels(content, is_pass) ==
    IF is_pass THEN <<>>
    ELSE SelectSeq(stripped_labels(content), is_cause_label)

\* render_failure_causes_chart: the labels of one failed event appended to
\* cause_counts, in order, one entry per occurrence
chart_cause_labels(content) ==
    SelectSeq(stripped_labels(content), is_cause_label)

\* ------------------------------------------------------------------------
\* Bounds and input pools
\* ------------------------------------------------------------------------
MaxTokens == 2
MaxFiles == 2

T_pass == <<"J","o","b",".","P","a","s","s",":","1">>
T_pass_spaced == <<" ","j","o","b",".", " ","P","A","S","S",":","1"," ">>
T_pass_tab == <<"J","o","b",".","\t","P","a","s","s",":","1">>
T_fail == <<"J","o","b",".","F","a","i","l",":","1">>
T_pass0 == <<"J","o","b",".","P","a","s","s",":","0">>
T_failure == <<"J","o","b",".","F","a","i","l","u","r","e",":","X">>
T_volt == <<" ","V","o","l","t",":","L","o","w">>
T_cam_ok == <<"C","a","m",":","O","k">>
T_temp_ok == <<"T"," ","=","o","k"," ">>
T_blank == <<" ">>

TokenPool == {T_pass, T_pass_spaced, T_pass_tab, T_fail, T_pass0, T_failure,
              T_volt, T_cam_ok, T_temp_ok, T_blank, <<>>}

\* raw status texts: up to MaxTokens tokens joined by commas
StatusTexts ==
    {join(ts, <<",">>) : ts \in UNION {[1..n -> TokenPool] : n \in 0..MaxTokens}}

\* ------------------------------------------------------------------------
\* Python dict / defaultdict(list): insertion-ordered, a sequence of [k, v]
\* ------------------------------------------------------------------------
dict_keys(d) == [i \in 1..Len(d) |-> d[i].k]

dict_has(d, key) == \E i \in 1..Len(d) : d[i].k = key

dict_get(d, key) == d[CHOOSE i \in 1..Len(d) : d[i].k = key].v

\* d[key].append(x) on a defaultdict(list)
dict_append(d, key, x) ==
    IF dict_has(d, key)
    THEN [i \in 1..Len(d) |->
            IF d[i].k = key THEN [k |-> key, v |-> Append(d[i].v, x)] ELSE d[i]]
    ELSE Append(d, [k |-> key, v |-> <<x>>])

\* ------------------------------------------------------------------------
\* The file system the program reads
\* ------------------------------------------------------------------------
Root == "P"
Sub1 == "P/s1"
Sub2 == "P/s2"

\* what QFileDialog.getExistingDirectory can return besides "" (cancelled)
Folders == {Root, Sub1, Sub2}

F_a_b_1 == <<"a","_","b","_","1",".","t","x","t">>
F_a_b_2 == <<"a","_","b","_","2",".","t","x","t">>
F_c == <<"c",".","T","X","T">>

\* the places a status file can be at
StatusPaths == {[dir |-> Sub1, file |-> F_a_b_1], [dir |-> Sub1, file |-> F_a_b_2],
                [dir |-> Root, file |-> F_c]}

X_pass == <<"J","o","b",".","P","a","s","s",":","1",","," ","T",":","2","5","C">>
X_fail == <<"V",":","L","o",","," ","J","o","b",".","F","a","i","l",":","1">>
X_twice == <<"V",":","L","o",",","C",":","O","K",","," ","V",":","L","o">>
X_pass0 == <<"J","o","b",".","P","a","s","s",":","0",",","E","r","r","\n">>

\* what a status file can be: modification time (seconds), text, whether
\* its image file exists next to it, whether open() and read() succeed on it
\* and whether os.path.getmtime succeeds on it
StatusVariants ==
    { [mtime |-> 86430, text |-> X_pass, image |-> TRUE, readable |-> TRUE, stat_ok |-> TRUE],
      [mtime |-> 86400, text |-> X_fail, image |-> TRUE, readable |-> TRUE, stat_ok |-> TRUE],
      [mtime |-> 86430, text |-> X_twice, image |-> FALSE, readable |-> TRUE, stat_ok |-> TRUE],
      [mtime |-> 86370, text |-> X_pass0, image |-> TRUE, readable |-> TRUE, stat_ok |-> TRUE] }

\* status files among which some cannot be read (open() raises, e.g. no read
\* permission or bytes that do not decode) or cannot be stat'ed (a dangling
\* symbolic link, or a file removed after os.walk listed it)
FaultVariants ==
    { [mtime |-> 86400, text |-> X_fail, image |-> TRUE, readable |-> TRUE, stat_ok |-> TRUE],
      [mtime |-> 86400, text |-> X_pass, image |-> TRUE, readable |-> FALSE, stat_ok |-> TRUE],
      [mtime |-> 86400, text |-> X_fail, image |-> TRUE, readable |-> TRUE, stat_ok |-> FALSE] }

artifacts_of(variants) ==
    { [dir |-> p.dir, file |-> p.file, mtime |-> v.mtime, text |-> v.text,
       image |-> v.image, readable |-> v.readable, stat_ok |-> v.stat_ok] :
        p \in StatusPaths, v \in variants }

Artifacts == artifacts_of(StatusVariants)

FaultArtifacts == artifacts_of(FaultVariants)

\* base + ".bmp" for the status file name base + ".txt"
image_name(file) == SubSeq(file, 1, Len(file) - 4) \o DOT_BMP

\* the files of a set of artifacts: the status files and the image files
files_of(arts) ==
    { [dir |-> a.dir, file |-> a.file, mtime |-> a.mtime, text |-> a.text,
       readable |-> a.readable, stat_ok |-> a.stat_ok] : a \in arts }
    \cup
    { [dir |-> a.dir, file |-> image_name(a.file), mtime |-> a.mtime, text |-> <<>>,
       readable |-> TRUE, stat_ok |-> TRUE] :
        a \in {b \in arts : b.image} }

\* at most MaxFiles status files, no two at the same place
disks_of(arts) ==
    { files_of(A) : A \in
        { A \in SUBSET arts :
            /\ Cardinality(A) <= MaxFiles
            /\ \A a, b \in A : (a.dir = b.dir /\ a.file = b.file) => a = b } }

Disks == disks_of(Artifacts)

FaultDisks == disks_of(FaultArtifacts)

\* os.path.join(root, file)
path_of(f) == [dir |-> f.dir, file |-> f.file]

is_txt(f) == endswith(lower(f.file), DOT_TXT)

\* directories os.walk(folder) visits
under(dir, folder) == folder = Root \/ dir = folder

\* os.walk(folder): top-down, each directory's files together, the order of
\* the status files within a directory and of the subdirectories arbitrary.
\* An image file is listed right after its status file; line 364 skips it
\* wherever it is listed.
walks(disk, folder) ==
    LET txts == {f \in disk : is_txt(f) /\ under(f.dir, folder)}
        n == Cardinality(txts)
        orders == { w \in [1..n -> txts] :
                      /\ \A i, j \in 1..n : i # j => w[i] # w[j]
                      /\ \A i, j, k \in 1..n :
                            (i < j /\ j < k /\ w[i].dir = w[k].dir) => w[j].dir = w[i].dir
                      /\ \A i, j \in 1..n :
                            (i < j /\ w[j].dir = folder) => w[i].dir = folder }
        images(f) == {g \in disk : g.dir = f.dir /\ g.file = image_name(f.file)}
        listed(f) == IF images(f) = {} THEN <<f>> ELSE <<f, CHOOSE g \in images(f) : TRUE>>
        flat[i \in 0..n, w \in orders] ==
            IF i = 0 THEN <<>> ELSE flat[i - 1, w] \o listed(w[i])
    IN { flat[n, w] : w \in orders }

\* ------------------------------------------------------------------------
\* load_txt, identity derivation, parse_folder_data
\* ------------------------------------------------------------------------
\* the mutated reading: the text is returned whether or not the read succeeds
load_txt_always(f) == strip(f.text)

\* open(path, 'r').read().strip(), "" when open or read raises
load_txt(f) == IF f.readable THEN strip(f.text) ELSE <<>>

\* the mutated reading: the first segment is dropped instead of the last
prefix_of_drop_first(file) ==
    LET parts == split(SubSeq(file, 1, Len(file) - 4), "_")
    IN IF Len(parts) > 1 THEN join(SubSeq(parts, 2, Len(parts)), <<"_">>)
       ELSE parts[1]

\* parts = file[:-4].split("_"); "_".join(parts[:-1]) if len(parts) > 1 else parts[0]
prefix_of(file) ==
    LET parts == split(SubSeq(file, 1, Len(file) - 4), "_")
    IN IF Len(parts) > 1 THEN join(SubSeq(parts, 1, Len(parts) - 1), <<"_">>)
       ELSE parts[1]

\* self._aggregated_failure_causes[lbl].append(file_path) for each label
RECURSIVE append_causes(_, _, _)
append_causes(causes, labels, path) ==
    IF labels = <<>> THEN causes
    ELSE append_causes(dict_append(causes, Head(labels), path), Tail(labels), path)

\* the body of the loop over the files of the walk: [data, causes] after it,
\* raised when os.path.getmtime raised and left the loop at that file
RECURSIVE parse_files(_, _, _)
parse_files(walk, data, causes) ==
    IF walk = <<>> THEN [data |-> data, causes |-> causes, raised |-> FALSE]
    ELSE LET f == Head(walk)
         IN IF ~is_txt(f) THEN parse_files(Tail(walk), data, causes)
            ELSE IF ~f.stat_ok THEN [data |-> data, causes |-> causes, raised |-> TRUE]
            ELSE LET file_path == path_of(f)
                     ts == f.mtime
                     prefix == prefix_of(f.file)
                     content == load_txt(f)
                     is_pass == txt_is_pass(content)
                     ev == [ts |-> ts, is_pass |-> is_pass, path |-> file_path,
                            content |-> content]
                 IN parse_files(Tail(walk),
                                dict_append(data, prefix, ev),
                                append_causes(causes,
                                              ingest_cause_labels(content, is_pass),
                                              file_path))

\* data_by_prefix and the reset aggregated causes after the whole walk
parse_folder_data(walk) == parse_files(walk, <<>>, <<>>)

\* ------------------------------------------------------------------------
\* apply_filters
\* ------------------------------------------------------------------------
\* seconds in a day: ts.date() is the day the modification time falls on
DaySeconds == 86400

date_of(ts) == ts \div DaySeconds

\* a QDate for which isValid() is False
NoDate == -1

\* the date a QDateEdit shows after construction, the first day of its range
DefaultDate == 0

\* dates the user can bring a date edit to
Dates == {0, 1}

\* the items of outcome_combo and what change_outcome_filter makes of them
OutcomeTexts == {"All", "Fail Only", "Pass Only"}

\* the items of chart_type_dropdown
ChartTypes == {"Line", "Step", "Bar", "Scatter"}

\* the four `continue` tests of the inner loop: TRUE when none fires
keeps(ev, outcome, start_date, end_date) ==
    LET start_ok == start_date # NoDate
        end_ok == end_date # NoDate
    IN /\ ~(start_ok /\ date_of(ev.ts) < start_date)
       /\ ~(end_ok /\ date_of(ev.ts) > end_date)
       /\ ~(outcome = "Fail" /\ ev.is_pass)
       /\ ~(outcome = "Pass" /\ ~ev.is_pass)

\* the mutated reading: the end date is exclusive
apply_filters_end_exclusive(data, outcome, start_date, end_date) ==
    [i \in 1..Len(data) |->
        [k |-> data[i].k,
         v |-> SelectSeq(data[i].v,
                         LAMBDA ev : /\ keeps(ev, outcome, start_date, end_date)
                                     /\ date_of(ev.ts) # end_date)]]

\* the mutated reading: a group left without events is dropped
apply_filters_dropping(data, outcome, start_date, end_date) ==
    LET all == [i \in 1..Len(data) |->
                  [k |-> data[i].k,
                   v |-> SelectSeq(data[i].v,
                                   LAMBDA ev : keeps(ev, outcome, start_date, end_date))]]
    IN SelectSeq(all, LAMBDA e : e.v # <<>>)

apply_filters(data, outcome, start_date, end_date) ==
    [i \in 1..Len(data) |->
        [k |-> data[i].k,
         v |-> SelectSeq(data[i].v,
                         LAMBDA ev : keeps(ev, outcome, start_date, end_date))]]

\* ------------------------------------------------------------------------
\* The aggregated views
\* ------------------------------------------------------------------------
RECURSIVE sum_seq(_)
sum_seq(ns) == IF ns = <<>> THEN 0 ELSE Head(ns) + sum_seq(Tail(ns))

count_pass(events) == Len(SelectSeq(events, LAMBDA ev : ev.is_pass))

\* update_dashboard: total_count, total_pass, total_fail
dashboard_totals(fdata) ==
    LET total_count == sum_seq([i \in 1..Len(fdata) |-> Len(fdata[i].v)])
        total_pass == sum_seq([i \in 1..Len(fdata) |-> count_pass(fdata[i].v)])
    IN [total |-> total_count, pass |-> total_pass, fail |-> total_count - total_pass]

\* render_summary_chart: {k: len(v) for k, v in filtered_data.items()}
summary_of(fdata) == [i \in 1..Len(fdata) |-> [k |-> fdata[i].k, v |-> Len(fdata[i].v)]]

\* bucket width of the heartbeat chart, seconds
time_bin == 60

\* the mutated reading: the bucket is the timestamp itself
binned_exact(ts) == ts

\* ts.timestamp() // time_bin * time_bin
binned(ts) == (ts \div time_bin) * time_bin

\* the mutated reading: the counter is set to 1 instead of incremented
bin_incr_set(bins, b, is_pass) ==
    LET old == IF dict_has(bins, b) THEN dict_get(bins, b) ELSE [pass |-> 0, fail |-> 0]
        new == IF is_pass THEN [old EXCEPT !.pass = 1] ELSE [old EXCEPT !.fail = 1]
    IN IF dict_has(bins, b)
       THEN [i \in 1..Len(bins) |-> IF bins[i].k = b THEN [k |-> b, v |-> new] ELSE bins[i]]
       ELSE Append(bins, [k |-> b, v |-> new])

\* bins[binned_ts]["pass" or "fail"] += 1 on a defaultdict of zeroed counters
bin_incr(bins, b, is_pass) ==
    LET old == IF dict_has(bins, b) THEN dict_get(bins, b) ELSE [pass |-> 0, fail |-> 0]
        new == IF is_pass THEN [old EXCEPT !.pass = @ + 1] ELSE [old EXCEPT !.fail = @ + 1]
    IN IF dict_has(bins, b)
       THEN [i \in 1..Len(bins) |-> IF bins[i].k = b THEN [k |-> b, v |-> new] ELSE bins[i]]
       ELSE Append(bins, [k |-> b, v |-> new])

RECURSIVE heartbeat_bins(_, _)
heartbeat_bins(events, bins) ==
    IF events = <<>> THEN bins
    ELSE heartbeat_bins(Tail(events),
                        bin_incr(bins, binned(Head(events).ts), Head(events).is_pass))

\* render_heartbeat_chart: grouped[prefix][binned_ts]; a prefix without
\* events is never looked up, so it gets no entry
heartbeat_of(fdata) ==
    LET with == SelectSeq(fdata, LAMBDA e : e.v # <<>>)
    IN [i \in 1..Len(with) |-> [k |-> with[i].k, v |-> heartbeat_bins(with[i].v, <<>>)]]

\* the mutated reading: the chart reads every event, Pass records included
RECURSIVE failed_events_with_pass(_)
failed_events_with_pass(fdata) ==
    IF fdata = <<>> THEN <<>>
    ELSE Head(fdata).v \o failed_events_with_pass(Tail(fdata))

\* the failed events of the filtered data, in the order the loops visit them
RECURSIVE failed_events(_)
failed_events(fdata) ==
    IF fdata = <<>> THEN <<>>
    ELSE SelectSeq(Head(fdata).v, LAMBDA ev : ~ev.is_pass) \o failed_events(Tail(fdata))

RECURSIVE causes_of_events(_, _)
causes_of_events(events, counts) ==
    IF events = <<>> THEN counts
    ELSE causes_of_events(Tail(events),
                          append_causes(counts,
                                        chart_cause_labels(Head(events).content),
                                        Head(events).path))

\* render_failure_causes_chart: cause_counts
cause_counts_of(fdata) == causes_of_events(failed_events(fdata), <<>>)

\* values = [len(v) for v in cause_counts.values()], with labels
cause_values_of(counts) == [i \in 1..Len(counts) |-> [k |-> counts[i].k, v |-> Len(counts[i].v)]]

\* ------------------------------------------------------------------------
\* FolderViewer
\* ------------------------------------------------------------------------
\* self.folder_path is None, and what the cancelled dialog returns
NoFolder == ""

\* no FolderViewer has been constructed
NoViewer == <<>>

\* a working directory that is not the parent folder of the inspection data
Elsewhere == "W"

\* the characters of the file names and texts, in code point order
Ascii ==
    <<"\t", "\n", " ", ",", ".", "0", "1", "2", "3", "4", "5", "6", "7", "8", "9", ":", "=",
      "A", "B", "C", "D", "E", "F", "G", "H", "I", "J", "K", "L", "M", "N", "O", "P", "Q",
      "R", "S", "T", "U", "V", "W", "X", "Y", "Z", "_",
      "a", "b", "c", "d", "e", "f", "g", "h", "i", "j", "k", "l", "m", "n", "o", "p", "q",
      "r", "s", "t", "u", "v", "w", "x", "y", "z">>

ord == [c \in {Ascii[i] : i \in DOMAIN Ascii} |-> CHOOSE i \in DOMAIN Ascii : Ascii[i] = c]

\* a < b for two str, as list.sort() compares them
RECURSIVE str_less(_, _)
str_less(a, b) ==
    IF b = <<>> THEN FALSE
    ELSE IF a = <<>> THEN TRUE
    ELSE IF Head(a) = Head(b) THEN str_less(Tail(a), Tail(b))
    ELSE ord[Head(a)] < ord[Head(b)]

\* bmp_files.sort() of a set of different names
RECURSIVE sorted(_)
sorted(names) ==
    IF names = {} THEN <<>>
    ELSE LET least == CHOOSE a \in names : \A b \in names : a = b \/ str_less(a, b)
         IN <<least>> \o sorted(names \ {least})

\* os.listdir(folder): the names of the files in folder itself
listdir(files, folder) == {f.file : f \in {g \in files : g.dir = folder}}

\* self.outcome_filter holds whatever the second argument of the constructor
\* was: a str, or the list of paths filter_image_viewer passes
filter_text(text) == [is_text |-> TRUE, text |-> text, files |-> <<>>]

filter_files(flist) == [is_text |-> FALSE, text |-> "", files |-> flist]

\* self.outcome_filter == text
filter_is(outcome, text) == outcome.is_text /\ outcome.text = text

\* base if len(base) < 20 else base[:17] + "..."
short_name_of(base) ==
    IF Len(base) < 20 THEN base ELSE SubSeq(base, 1, 17) \o <<".", ".", ".">>

\* the parts of the text that do not begin with JOB.PASS or JOB.FAIL when
\* upper-cased, joined with ", "
read_string_of(content) ==
    join(SelectSeq(stripped_labels(content),
                   LAMBDA q : /\ ~startswith(upper(q), JOB_PASS)
                              /\ ~startswith(upper(q), JOB_FAIL)),
         <<",", " ">>)

\* the loop of populate_table over the sorted image names: the rows appended.
\* os.path.exists is False for a status file that cannot be stat'ed. ts is
\* the modification time the first column shows formatted.
RECURSIVE populate_rows(_, _, _, _)
populate_rows(bmp_files, files, folder, outcome) ==
    IF bmp_files = <<>> THEN <<>>
    ELSE LET f == Head(bmp_files)
             base == SubSeq(f, 1, Len(f) - 4)
             txts == {g \in files : g.dir = folder /\ g.file = base \o DOT_TXT /\ g.stat_ok}
             rest == populate_rows(Tail(bmp_files), files, folder, outcome)
         IN IF txts = {} THEN rest
            ELSE LET txt == CHOOSE g \in txts : TRUE
                     content == load_txt(txt)
                     is_pass == txt_is_pass(content)
                 IN IF filter_is(outcome, "Pass") /\ ~is_pass THEN rest
                    ELSE IF filter_is(outcome, "Fail") /\ is_pass THEN rest
                    ELSE <<[ts |-> txt.mtime,
                            short_name |-> short_name_of(base),
                            result |-> IF is_pass THEN "pass mark" ELSE "fail mark",
                            read_string |-> read_string_of(content),
                            img_path |-> [dir |-> folder, file |-> f]]>> \o rest

\* rows = self.all_rows[start:end] of refresh_page
page_rows(rows, current_page, page_size) ==
    LET start == current_page * page_size
        end == start + page_size
    IN IF start >= Len(rows) THEN <<>>
       ELSE SubSeq(rows, start + 1, IF end < Len(rows) THEN end ELSE Len(rows))

\* refresh_page: the table shows the rows of the current page
refresh_page(v) ==
    [v EXCEPT !.table_rows = page_rows(v.all_rows, v.current_page, v.page_size)]

\* populate_table of the viewer v over the files on disk
populate_table(v, files) ==
    LET bmp_files == sorted({f \in listdir(files, v.current_folder) :
                                endswith(lower(f), DOT_BMP)})
    IN refresh_page([v EXCEPT
                       !.all_rows = populate_rows(bmp_files, files, v.current_folder,
                                                  v.outcome_filter),
                       !.current_page = 0])

\* the items of page_size_combo as int(text) reads them
PageSizes == {10, 20, 50}

\* self.page_size after construction
DefaultPageSize == 10

\* FolderViewer(folder, outcome_filter) over the files on disk
FolderViewer(folder, outcome, files) ==
    populate_table([current_folder |-> folder, outcome_filter |-> outcome,
                    all_rows |-> <<>>, page_size |-> DefaultPageSize,
                    current_page |-> 0, table_rows |-> <<>>],
                   files)

change_page_size(v, size) ==
    refresh_page([v EXCEPT !.page_size = size, !.current_page = 0])

first_page(v) == refresh_page([v EXCEPT !.current_page = 0])

prev_page(v) ==
    IF v.current_page > 0
    THEN refresh_page([v EXCEPT !.current_page = v.current_page - 1])
    ELSE v

\* the mutated reading: the guard lets the page after a full last page in
next_page_inclusive(v) ==
    IF (v.current_page + 1) * v.page_size <= Len(v.all_rows)
    THEN refresh_page([v EXCEPT !.current_page = v.current_page + 1])
    ELSE v

next_page(v) ==
    IF (v.current_page + 1) * v.page_size < Len(v.all_rows)
    THEN refresh_page([v EXCEPT !.current_page = v.current_page + 1])
    ELSE v

\* the mutated reading: the last page is taken to be len // page_size
last_page_floor(v) ==
    IF v.all_rows # <<>>
    THEN refresh_page([v EXCEPT !.current_page = Len(v.all_rows) \div v.page_size])
    ELSE v

last_page(v) ==
    IF v.all_rows # <<>>
    THEN refresh_page([v EXCEPT !.current_page = (Len(v.all_rows) - 1) \div v.page_size])
    ELSE v

\* ------------------------------------------------------------------------
\* The Images view: load_images and filter_image_viewer
\* ------------------------------------------------------------------------
\* os.path.basename of a folder
basename(folder) ==
    IF folder = Sub1 THEN "s1" ELSE IF folder = Sub2 THEN "s2" ELSE Root

\* the folder a folder is in; the parent of Root is not a place of the model
parent(folder) == IF folder \in {Sub1, Sub2} THEN Root ELSE NoFolder

\* the subfolders of a folder, sorted by name
subfolders_of(folder) == IF folder = Root THEN <<Sub1, Sub2>> ELSE <<>>

\* working directories of the process
Cwds == {Elsewhere, Root}

\* whether a path names a directory for a process working in dir: the
\* absolute folders do, and so does the bare name of a folder that is in dir
isdir(path, dir) ==
    \/ path \in Folders
    \/ \E d \in Folders : parent(d) = dir /\ basename(d) = path

\* the files as a process working in dir can name them: by their absolute
\* folder, and by the bare folder name when the folder is in dir
seen_from(files, dir) ==
    files \cup { [f EXCEPT !.dir = basename(f.dir)] : f \in {g \in files : parent(g.dir) = dir} }

\* a tab of images_tab: the folder name or word and the cause of its label
\* (<<>> for a label without one), and its FolderViewer, NoViewer for a tab
\* that holds a plain widget
tab_of(label, cause, v) == [label |-> label, cause |-> cause, viewer |-> v]

\* load_images: one FolderViewer per subfolder of folder_path
load_images(fp, outcome, files) ==
    IF fp = NoFolder THEN <<>>
    ELSE LET subs == subfolders_of(fp)
         IN [i \in 1..Len(subs) |->
                tab_of(basename(subs[i]), <<>>, FolderViewer(subs[i], filter_text(outcome), files))]

\* subfolders[os.path.dirname(f)].append(f) over the files of a cause
RECURSIVE group_by_dirname(_, _)
group_by_dirname(flist, groups) ==
    IF flist = <<>> THEN groups
    ELSE group_by_dirname(Tail(flist), dict_append(groups, Head(flist).dir, Head(flist)))

\* the loop of filter_image_viewer over the groups: the tabs added, and
\* raised when os.listdir raised in the constructor of a FolderViewer
RECURSIVE drill_tabs(_, _, _, _, _)
drill_tabs(groups, cause, files, dir, tabs) ==
    IF groups = <<>> THEN [tabs |-> tabs, raised |-> FALSE]
    ELSE LET name == basename(Head(groups).k)
         IN IF ~isdir(name, dir) THEN [tabs |-> tabs, raised |-> TRUE]
            ELSE drill_tabs(Tail(groups), cause, files, dir,
                            Append(tabs,
                                   tab_of(name, cause,
                                   FolderViewer(name, filter_files(Head(groups).v),
                                                seen_from(files, dir)))))

\* filter_image_viewer(files, cause) of a process working in dir: the tabs
\* of images_tab when it returns or raises
filter_image_viewer(flist, cause, files, dir) ==
    IF flist = <<>> THEN [tabs |-> <<tab_of("Filtered", cause, NoViewer)>>, raised |-> FALSE]
    ELSE LET opened == drill_tabs(group_by_dirname(flist, <<>>), cause, files, dir, <<>>)
         IN IF opened.raised THEN opened
            ELSE [tabs |-> Append(opened.tabs, tab_of("Reset", <<>>, NoViewer)), raised |-> FALSE]

\* ------------------------------------------------------------------------
\* State
\* ------------------------------------------------------------------------
VARIABLES
    disk,                       \* the files under the parent folder
    folder_path,                \* self.folder_path, NoFolder for None
    all_data,                   \* self.all_data
    aggregated_failure_causes,  \* self._aggregated_failure_causes
    filtered_data,              \* self.filtered_data
    outcome_filter,             \* self.outcome_filter
    chart_type,                 \* self.chart_type
    chart_combo,                \* self.chart_type_dropdown.currentText()
    start_date,                 \* self.start_date_edit.date()
    end_date,                   \* self.end_date_edit.date()
    totals,                     \* the three gauges of the dashboard
    summary_counts,             \* the summary chart
    grouped,                    \* the heartbeat chart
    cause_counts,               \* the failure-cause chart: label -> paths
    cause_values,               \* the failure-cause chart: label -> bar height
    status_text,                \* one status file's raw text
    classified,                 \* whether that text has been read and classified
    verdict,                    \* txt_is_pass of it
    ingest_causes,              \* the cause labels ingestion records for it
    chart_causes,               \* the cause labels the failure-cause chart records for it
    raised,                     \* whether the last handler call ended with an exception
    images_tab,                 \* self.images_tab: the tabs of the Images view
    viewer,                     \* one FolderViewer and the page its table shows
    cwd                         \* the process's working directory

app_vars == <<disk, folder_path, all_data, aggregated_failure_causes, filtered_data,
              outcome_filter, chart_type, chart_combo, start_date, end_date, totals,
              summary_counts, grouped, cause_counts, cause_values>>

chart_vars == <<summary_counts, grouped, cause_counts, cause_values>>

txt_vars == <<status_text, classified, verdict, ingest_causes, chart_causes>>

\* what no handler of the main window assigns
side_vars == <<txt_vars, viewer, cwd>>

vars == <<disk, folder_path, all_data, aggregated_failure_causes, filtered_data,
          outcome_filter, chart_type, chart_combo, start_date, end_date, totals,
          summary_counts, grouped, cause_counts, cause_values,
          status_text, classified, verdict, ingest_causes, chart_causes,
          raised, images_tab, viewer, cwd>>

\* AssureVisionApp.__init__
app_init ==
    /\ folder_path = NoFolder
    /\ chart_type = "Line"
    /\ chart_combo = "Step"
    /\ outcome_filter = "All"
    /\ all_data = <<>>
    /\ filtered_data = <<>>
    /\ aggregated_failure_causes = <<>>
    /\ start_date = DefaultDate
    /\ end_date = DefaultDate
    /\ totals = [total |-> 0, pass |-> 0, fail |-> 0]
    /\ summary_counts = <<>>
    /\ grouped = <<>>
    /\ cause_counts = <<>>
    /\ cause_values = <<>>
    /\ images_tab = <<>>
    /\ raised = FALSE

txt_idle ==
    /\ status_text = <<>>
    /\ classified = FALSE
    /\ verdict = FALSE
    /\ ingest_causes = <<>>
    /\ chart_causes = <<>>

Init ==
    /\ disk \in Disks
    /\ app_init
    /\ txt_idle
    /\ viewer = NoViewer
    /\ cwd = Elsewhere

\* ------------------------------------------------------------------------
\* Handlers
\* ------------------------------------------------------------------------
\* load_charts: the four chart tabs drawn from the filtered data
load_charts(fp, fdata) ==
    IF fp = NoFolder
    THEN /\ summary_counts' = <<>>
         /\ grouped' = <<>>
         /\ cause_counts' = <<>>
         /\ cause_values' = <<>>
    ELSE LET counts == cause_counts_of(fdata)
         IN /\ summary_counts' = summary_of(fdata)
            /\ grouped' = heartbeat_of(fdata)
            /\ cause_counts' = counts
            /\ cause_values' = cause_values_of(counts)

\* update_dashboard
update_dashboard(fdata) == totals' = dashboard_totals(fdata)

\* update_everything, run with self.folder_path = fp, self.all_data = data and
\* the filter widgets at outcome, sd, ed
update_everything(fp, data, outcome, sd, ed) ==
    IF fp = NoFolder
    THEN UNCHANGED <<filtered_data, totals, chart_vars, images_tab>>
    ELSE LET filtered == apply_filters(data, outcome, sd, ed)
         IN /\ filtered_data' = filtered
            /\ images_tab' = load_images(fp, outcome, disk)
            /\ load_charts(fp, filtered)
            /\ update_dashboard(filtered)

\* select_folder: folder is what the dialog returned, walk what os.walk yields
\* When parse_folder_data raises, the exception leaves select_folder after
\* line 331 assigned folder_path and line 360 replaced the cause index, which
\* the loop filled up to the failing file; lines 332 and 333 did not run.
select_folder(folder, walk) ==
    IF folder = NoFolder
    THEN /\ raised' = FALSE
         /\ UNCHANGED <<app_vars, images_tab, side_vars>>
    ELSE LET parsed == parse_folder_data(walk)
         IN IF parsed.raised
            THEN /\ folder_path' = folder
                 /\ aggregated_failure_causes' = parsed.causes
                 /\ raised' = TRUE
                 /\ UNCHANGED <<disk, all_data, filtered_data, totals, chart_vars,
                                images_tab, outcome_filter, chart_type, chart_combo,
                                start_date, end_date, side_vars>>
            ELSE /\ folder_path' = folder
                 /\ all_data' = parsed.data
                 /\ aggregated_failure_causes' = parsed.causes
                 /\ update_everything(folder, parsed.data, outcome_filter, start_date,
                                      end_date)
                 /\ raised' = FALSE
                 /\ UNCHANGED <<disk, outcome_filter, chart_type, chart_combo,
                                start_date, end_date, side_vars>>

\* currentTextChanged of the dropdown -> change_chart_type
change_chart_type(text) ==
    /\ text # chart_combo
    /\ chart_combo' = text
    /\ chart_type' = text
    /\ load_charts(folder_path, filtered_data)
    /\ UNCHANGED <<disk, folder_path, all_data, aggregated_failure_causes, filtered_data,
                   outcome_filter, start_date, end_date, totals, images_tab,
                   side_vars>>
    /\ raised' = FALSE

outcome_of(text) ==
    IF text = "Fail Only" THEN "Fail"
    ELSE IF text = "Pass Only" THEN "Pass"
    ELSE "All"

\* the text outcome_combo shows for the present filter
combo_text(outcome) ==
    IF outcome = "Fail" THEN "Fail Only"
    ELSE IF outcome = "Pass" THEN "Pass Only"
    ELSE "All"

\* the mutated reading: the filter is applied to the store in place
change_outcome_filter_in_place(text) ==
    /\ text # combo_text(outcome_filter)
    /\ outcome_filter' = outcome_of(text)
    /\ all_data' = IF folder_path = NoFolder THEN all_data
                   ELSE apply_filters(all_data, outcome_of(text), start_date, end_date)
    /\ update_everything(folder_path, all_data, outcome_of(text), start_date, end_date)
    /\ UNCHANGED <<disk, folder_path, aggregated_failure_causes, chart_type,
                   chart_combo, start_date, end_date, side_vars>>
    /\ raised' = FALSE

change_outcome_filter(text) ==
    /\ text # combo_text(outcome_filter)
    /\ outcome_filter' = outcome_of(text)
    /\ update_everything(folder_path, all_data, outcome_of(text), start_date, end_date)
    /\ UNCHANGED <<disk, folder_path, all_data, aggregated_failure_causes, chart_type,
                   chart_combo, start_date, end_date, side_vars>>
    /\ raised' = FALSE

\* the mutated reading: the start date is taken without refreshing the views
start_date_changed_stale(d) ==
    /\ d # start_date
    /\ start_date' = d
    /\ UNCHANGED <<disk, folder_path, all_data, aggregated_failure_causes, filtered_data,
                   totals, chart_vars, images_tab, chart_type, chart_combo,
                   outcome_filter, end_date, side_vars>>
    /\ raised' = FALSE

\* start_date_edit.dateChanged -> update_everything
start_date_changed(d) ==
    /\ d # start_date
    /\ start_date' = d
    /\ update_everything(folder_path, all_data, outcome_filter, d, end_date)
    /\ UNCHANGED <<disk, folder_path, all_data, aggregated_failure_causes, chart_type,
                   chart_combo, outcome_filter, end_date, side_vars>>
    /\ raised' = FALSE

\* end_date_edit.dateChanged -> update_everything
end_date_changed(d) ==
    /\ d # end_date
    /\ end_date' = d
    /\ update_everything(folder_path, all_data, outcome_filter, start_date, d)
    /\ UNCHANGED <<disk, folder_path, all_data, aggregated_failure_causes, chart_type,
                   chart_combo, outcome_filter, start_date, side_vars>>
    /\ raised' = FALSE

SelectFolder ==
    \E folder \in Folders \cup {NoFolder} :
        \E walk \in (IF folder = NoFolder THEN {<<>>} ELSE walks(disk, folder)) :
            select_folder(folder, walk)

ChangeChartType == \E text \in ChartTypes : change_chart_type(text)

ChangeOutcomeFilter == \E text \in OutcomeTexts : change_outcome_filter(text)

StartDateChanged == \E d \in Dates : start_date_changed(d)

EndDateChanged == \E d \in Dates : end_date_changed(d)

Next ==
    \/ SelectFolder
    \/ ChangeChartType
    \/ ChangeOutcomeFilter
    \/ StartDateChanged
    \/ EndDateChanged

Spec == Init /\ [][Next]_vars

\* ------------------------------------------------------------------------
\* The same handlers over folders that hold status files which cannot be read
\* or cannot be stat'ed
\* ------------------------------------------------------------------------
InitFaults ==
    /\ disk \in FaultDisks
    /\ app_init
    /\ txt_idle
    /\ viewer = NoViewer
    /\ cwd = Elsewhere

SpecFaults == InitFaults /\ [][Next]_vars

\* ------------------------------------------------------------------------
\* Drilling into a cause: a click on a bar of the failure-cause chart
\* ------------------------------------------------------------------------
InitDrill ==
    /\ disk \in Disks
    /\ app_init
    /\ txt_idle
    /\ viewer = NoViewer
    /\ cwd \in Cwds

\* on_add of render_failure_causes_chart for the bar of cause_counts[i]
on_add(i) ==
    LET shown == filter_image_viewer(cause_counts[i].v, cause_counts[i].k, disk, cwd)
    IN /\ images_tab' = shown.tabs
       /\ raised' = shown.raised
       /\ UNCHANGED <<app_vars, side_vars>>

DrillDown == \E i \in 1..Len(cause_counts) : on_add(i)

\* reset_btn.clicked -> load_images, for the button of the Reset tab
ResetImages ==
    /\ \E i \in 1..Len(images_tab) : images_tab[i].label = "Reset"
    /\ images_tab' = load_images(folder_path, outcome_filter, disk)
    /\ raised' = FALSE
    /\ UNCHANGED <<app_vars, side_vars>>

NextDrill ==
    \/ SelectFolder
    \/ EndDateChanged
    \/ DrillDown
    \/ ResetImages

SpecDrill == InitDrill /\ [][NextDrill]_vars

\* ------------------------------------------------------------------------
\* One FolderViewer over a folder of paired files and its paging buttons
\* ------------------------------------------------------------------------
\* the most image/status pairs a viewed folder holds
MaxRows == 21

Digits == <<"0", "1", "2", "3", "4", "5", "6", "7", "8", "9">>

\* the two-digit base name of the i-th pair
numbered(i) == <<Digits[(i \div 10) + 1], Digits[(i % 10) + 1]>>

\* n pairs in Sub1, every third one a Pass
pairs(n) ==
    { [dir |-> Sub1, file |-> numbered(i) \o DOT_TXT, mtime |-> DaySeconds + i,
       text |-> IF i % 3 = 0 THEN X_pass ELSE X_fail, image |-> TRUE,
       readable |-> TRUE, stat_ok |-> TRUE] : i \in 1..n }

PagerDisks == { files_of(pairs(n)) : n \in 0..MaxRows }

\* the outcome filters load_images constructs a FolderViewer with
ViewerOutcomes == {"All", "Pass", "Fail"}

InitPager ==
    /\ disk \in PagerDisks
    /\ app_init
    /\ txt_idle
    /\ cwd = Elsewhere
    /\ viewer \in { FolderViewer(Sub1, filter_text(o), disk) : o \in ViewerOutcomes }

pager_idle == UNCHANGED <<app_vars, images_tab, txt_vars, cwd>>

ChangePageSize ==
    \E size \in PageSizes :
        /\ size # viewer.page_size
        /\ viewer' = change_page_size(viewer, size)
        /\ raised' = FALSE
        /\ pager_idle

FirstPage == viewer' = first_page(viewer) /\ raised' = FALSE /\ pager_idle

PrevPage == viewer' = prev_page(viewer) /\ raised' = FALSE /\ pager_idle

NextPage == viewer' = next_page(viewer) /\ raised' = FALSE /\ pager_idle

LastPage == viewer' = last_page(viewer) /\ raised' = FALSE /\ pager_idle

PopulateTable == viewer' = populate_table(viewer, disk) /\ raised' = FALSE /\ pager_idle

NextPager ==
    \/ ChangePageSize
    \/ FirstPage
    \/ PrevPage
    \/ NextPage
    \/ LastPage
    \/ PopulateTable

SpecPager == InitPager /\ [][NextPager]_vars

\* ------------------------------------------------------------------------
\* One status text read and classified: what ingestion and the failure-cause
\* chart make of a single file's content
\* ------------------------------------------------------------------------
InitTxt ==
    /\ disk = {}
    /\ app_init
    /\ viewer = NoViewer
    /\ cwd = Elsewhere
    /\ status_text \in StatusTexts
    /\ classified = FALSE
    /\ verdict = FALSE
    /\ ingest_causes = <<>>
    /\ chart_causes = <<>>

ClassifyText ==
    LET content == load_txt([text |-> status_text, readable |-> TRUE])
        is_pass == txt_is_pass(content)
    IN /\ ~classified
       /\ classified' = TRUE
       /\ verdict' = is_pass
       /\ ingest_causes' = ingest_cause_labels(content, is_pass)
       /\ chart_causes' = IF ~is_pass THEN chart_cause_labels(content) ELSE <<>>
       /\ UNCHANGED <<status_text, app_vars, raised, images_tab, viewer, cwd>>

NextTxt == ClassifyText

SpecTxt == InitTxt /\ [][NextTxt]_vars

\* ------------------------------------------------------------------------
\* Properties
\* ------------------------------------------------------------------------
Range(q) == {q[i] : i \in 1..Len(q)}

\* the trimmed, non-empty pieces of a text between its commas, stated by
\* position: a piece starts after a comma (or at the start), ends before a
\* comma (or at the end) and holds no comma
Tokens(text) ==
    LET n == Len(text)
        bounds == { ab \in (1..(n + 1)) \X (1..(n + 1)) :
                      /\ ab[1] <= ab[2]
                      /\ (ab[1] = 1 \/ text[ab[1] - 1] = ",")
                      /\ (ab[2] = n + 1 \/ text[ab[2]] = ",")
                      /\ \A i \in ab[1]..(ab[2] - 1) : text[i] # "," }
    IN { strip(SubSeq(text, ab[1], ab[2] - 1)) : ab \in bounds } \ {<<>>}

Normal(token) == upper(remove_spaces(token))

HasPassToken(text) == \E t \in Tokens(text) : Normal(t) = JOB_PASS_1

HasFailToken(text) == \E t \in Tokens(text) : Normal(t) = JOB_FAIL_1

\* C1: a status text is classified Pass exactly when one of its trimmed
\* tokens is JOB.PASS:1 after removing spaces and upper-casing, whatever the
\* other tokens are; every other text, the empty one included, is Fail.
C1_PassIffPassToken ==
    classified => (verdict <=> HasPassToken(status_text))

\* C1 witness: a classified text holding a pass token and a fail token
C1_Witness ==
    /\ classified
    /\ verdict
    /\ HasPassToken(status_text)
    /\ HasFailToken(status_text)

\* C2 as claimed: for a Fail text the recorded cause labels are exactly the
\* tokens that equal neither marker and are not OK-suffixed.
C2_CausesExceptExactMarkers ==
    (classified /\ ~verdict) =>
        LET want == { t \in Tokens(status_text) :
                        /\ Normal(t) # JOB_PASS_1
                        /\ Normal(t) # JOB_FAIL_1
                        /\ ~(endswith(Normal(t), COLON_OK) \/ endswith(Normal(t), EQUALS_OK)) }
        IN /\ Range(ingest_causes) = want
           /\ Range(chart_causes) = want

\* C2 amended: for a Fail text the cause labels recorded at ingestion and in
\* the failure-cause chart are exactly the tokens whose normal form neither
\* begins with JOB.PASS or JOB.FAIL nor ends in :OK or =OK; Job.Pass:0 and
\* Job.Failure:X are therefore not recorded.
C2_CausesExceptMarkerFamilies ==
    (classified /\ ~verdict) =>
        LET want == { t \in Tokens(status_text) :
                        /\ ~(\E n \in 0..Len(Normal(t)) :
                                SubSeq(Normal(t), 1, n) \in {JOB_PASS, JOB_FAIL})
                        /\ ~(\E n \in 0..Len(Normal(t)) :
                                SubSeq(Normal(t), n + 1, Len(Normal(t)))
                                    \in {COLON_OK, EQUALS_OK}) }
        IN /\ Range(ingest_causes) = want
           /\ Range(chart_causes) = want

\* C2 witness: a Fail text with a Job.Pass:0 or Job.Failure:X token next to a
\* recorded cause
C2_Witness ==
    /\ classified
    /\ ~verdict
    /\ \E t \in Tokens(status_text) :
          /\ Normal(t) \notin {JOB_PASS_1, JOB_FAIL_1}
          /\ startswith(Normal(t), JOB_PASS) \/ startswith(Normal(t), JOB_FAIL)
          /\ t \notin Range(ingest_causes)
    /\ ingest_causes # <<>>
    /\ chart_causes = ingest_causes

\* the events of a grouped store
events_of(data) == UNION {Range(data[i].v) : i \in 1..Len(data)}

\* the paths of a cause index
paths_of(causes) == UNION {Range(causes[i].v) : i \in 1..Len(causes)}

has_image(path) ==
    \E g \in disk :
        /\ g.dir = path.dir
        /\ lower(g.file) = lower(SubSeq(path.file, 1, Len(path.file) - 4)) \o DOT_BMP

\* C3 as claimed: after ingestion every record of the store, and every path of
\* the failure-cause index, is a status file with a same-base-name image file
\* in its directory.
C3_EveryRecordHasImage ==
    /\ \A ev \in events_of(all_data) : has_image(ev.path)
    /\ \A p \in paths_of(aggregated_failure_causes) : has_image(p)

\* the status files ingestion of folder visits
status_files(folder) ==
    { f \in disk : /\ under(f.dir, folder)
                   /\ Len(f.file) >= 4
                   /\ lower(SubSeq(f.file, Len(f.file) - 3, Len(f.file))) = DOT_TXT }

\* base name without its last underscore-delimited segment, by position
identity_of(file) ==
    LET base == SubSeq(file, 1, Len(file) - 4)
        us == {i \in 1..Len(base) : base[i] = "_"}
    IN IF us = {} THEN base
       ELSE SubSeq(base, 1, (CHOOSE i \in us : \A j \in us : j <= i) - 1)

\* C4: ingestion puts the record of every visited status file into exactly
\* one group, the one keyed by its identity, and nothing else into the store:
\* the set of records of each group depends on the files alone, not on the
\* order the traversal found them in.
C4_IdentityPartition ==
    folder_path # NoFolder =>
        /\ \A i, j \in 1..Len(all_data) : all_data[i].k = all_data[j].k => i = j
        /\ \A i \in 1..Len(all_data) :
              /\ all_data[i].v # <<>>
              /\ \A a, b \in 1..Len(all_data[i].v) :
                    all_data[i].v[a].path = all_data[i].v[b].path => a = b
              /\ {ev.path : ev \in Range(all_data[i].v)} =
                    { path_of(f) : f \in { g \in status_files(folder_path) :
                                             identity_of(g.file) = all_data[i].k } }
        /\ \A f \in status_files(folder_path) :
              \E i \in 1..Len(all_data) : all_data[i].k = identity_of(f.file)

\* C4 witness: two files of one identity, stored in the order opposite to
\* their names' order
C4_Witness ==
    /\ folder_path = Root
    /\ \E i \in 1..Len(all_data) :
          /\ Len(all_data[i].k) = 3
          /\ Len(all_data[i].v) = 2
          /\ all_data[i].v[1].path.file = F_a_b_2
          /\ all_data[i].v[2].path.file = F_a_b_1

\* what the filter widgets ask of a record
Wanted(ev) ==
    /\ (start_date # NoDate => date_of(ev.ts) >= start_date)
    /\ (end_date # NoDate => date_of(ev.ts) <= end_date)
    /\ (outcome_filter = "Pass" => ev.is_pass)
    /\ (outcome_filter = "Fail" => ~ev.is_pass)

\* position of a record of a list whose records are all different
position(events, ev) == CHOOSE a \in 1..Len(events) : events[a] = ev

\* C5: the filtered view keeps a record exactly when its date is within the
\* start and end dates (both inclusive) and its verdict is not the opposite
\* of the requested outcome; the kept records of an identity stay in the
\* order they have in the store.
C5_FilterKeepsExactlyWanted ==
    folder_path # NoFolder =>
        /\ Len(filtered_data) = Len(all_data)
        /\ \A i \in 1..Len(all_data) :
              /\ filtered_data[i].k = all_data[i].k
              /\ \A ev \in Range(all_data[i].v) :
                    ev \in Range(filtered_data[i].v) <=> Wanted(ev)
              /\ Range(filtered_data[i].v) \subseteq Range(all_data[i].v)
              /\ \A a, b \in 1..Len(filtered_data[i].v) :
                    a < b => position(all_data[i].v, filtered_data[i].v[a])
                                < position(all_data[i].v, filtered_data[i].v[b])

\* C5 witness: an identity with a kept record dated on the end date and
\* another record filtered out
C5_Witness ==
    /\ folder_path # NoFolder
    /\ \E i \in 1..Len(all_data) :
          /\ \E ev \in Range(filtered_data[i].v) :
                date_of(ev.ts) = end_date /\ date_of(ev.ts) = start_date
          /\ \E ev \in Range(all_data[i].v) : ev \notin Range(filtered_data[i].v)

\* C6: the summary view has one entry per identity of the store, in the
\* store's order, valued with the number of that identity's records the
\* filter keeps; an identity left without records stays, with count 0.
C6_SummaryPerIdentity ==
    folder_path # NoFolder =>
        /\ Len(summary_counts) = Len(all_data)
        /\ \A i \in 1..Len(all_data) :
              /\ summary_counts[i].k = all_data[i].k
              /\ summary_counts[i].v =
                    Cardinality({a \in 1..Len(all_data[i].v) : Wanted(all_data[i].v[a])})

\* C6 witness: an identity with records in the store and count 0 in the summary
C6_Witness ==
    /\ folder_path # NoFolder
    /\ \E i \in 1..Len(summary_counts) :
          /\ summary_counts[i].v = 0
          /\ all_data[i].v # <<>>
    /\ \E i \in 1..Len(summary_counts) : summary_counts[i].v > 0

\* C7: a change of the outcome filter, of the start date, of the end date or
\* of the chart type, with all the aggregation it runs, leaves the ingested
\* store as it was.
C7_FiltersLeaveStore ==
    [][(ChangeOutcomeFilter \/ StartDateChanged \/ EndDateChanged \/ ChangeChartType)
          => all_data' = all_data]_vars

\* C7 witness: a filter has acted on a store and taken records out of the view
C7_Witness ==
    /\ folder_path # NoFolder
    /\ outcome_filter = "Fail"
    /\ start_date = 1
    /\ \E i \in 1..Len(all_data) : Len(filtered_data[i].v) < Len(all_data[i].v)

\* the counters of all buckets of all identities of the heartbeat view
heartbeat_sum(kind) ==
    sum_seq([i \in 1..Len(grouped) |->
                sum_seq([b \in 1..Len(grouped[i].v) |->
                            IF kind = "pass" THEN grouped[i].v[b].v.pass
                            ELSE grouped[i].v[b].v.fail])])

\* C8: the pass counts plus the fail counts of all heartbeat buckets equal the
\* total of the Totals view, whose pass and fail counts add up to its total,
\* the number of records the filter keeps.
C8_CountsAddUp ==
    /\ heartbeat_sum("pass") + heartbeat_sum("fail") = totals.total
    /\ heartbeat_sum("pass") = totals.pass
    /\ totals.pass + totals.fail = totals.total
    /\ totals.total = Cardinality({ev.path : ev \in events_of(filtered_data)})

\* C8 witness: a bucket holding a Pass and a Fail record
C8_Witness ==
    /\ totals.total = 2
    /\ \E i \in 1..Len(grouped) : \E b \in 1..Len(grouped[i].v) :
          grouped[i].v[b].v.pass = 1 /\ grouped[i].v[b].v.fail = 1

\* pairs of Fail records of one identity of the filtered view, 30 seconds apart
fail_pairs(i) ==
    { ee \in Range(filtered_data[i].v) \X Range(filtered_data[i].v) :
        /\ ~ee[1].is_pass
        /\ ~ee[2].is_pass
        /\ ee[2].ts = ee[1].ts + 30 }

\* the heartbeat buckets of an identity
buckets_of(key) ==
    UNION {Range(grouped[i].v) : i \in {j \in 1..Len(grouped) : grouped[j].k = key}}

covers(bucket, ts) == bucket.k <= ts /\ ts < bucket.k + time_bin

\* C9 as claimed: any two Fail records of one identity 30 seconds apart are in
\* one 60-second bucket, whose fail count is 2.
C9_ThirtyApartSameBucket ==
    \A i \in 1..Len(filtered_data) : \A ee \in fail_pairs(i) :
        \E bucket \in buckets_of(filtered_data[i].k) :
            /\ covers(bucket, ee[1].ts)
            /\ covers(bucket, ee[2].ts)
            /\ bucket.v.fail = 2

\* C9 amended: two Fail records of one identity 30 seconds apart are in one
\* bucket exactly when the earlier one lies in the first 30 seconds of its
\* 60-second window; the bucket's fail count then counts both (it is the
\* number of the identity's Fail records in the window); otherwise they are
\* in two consecutive buckets.
C9_SameBucketIffFirstHalf ==
    \A i \in 1..Len(filtered_data) : \A ee \in fail_pairs(i) :
        LET fails(bucket) ==
                Cardinality({a \in 1..Len(filtered_data[i].v) :
                                /\ ~filtered_data[i].v[a].is_pass
                                /\ covers(bucket, filtered_data[i].v[a].ts)})
        IN IF ee[1].ts % time_bin < 30
           THEN \E bucket \in buckets_of(filtered_data[i].k) :
                    /\ covers(bucket, ee[1].ts)
                    /\ covers(bucket, ee[2].ts)
                    /\ bucket.v.fail >= 2
                    /\ bucket.v.fail = fails(bucket)
           ELSE \E b1, b2 \in buckets_of(filtered_data[i].k) :
                    /\ covers(b1, ee[1].ts)
                    /\ covers(b2, ee[2].ts)
                    /\ b2.k = b1.k + time_bin
                    /\ b1.v.fail = fails(b1)
                    /\ b2.v.fail = fails(b2)

\* C9 witness: two Fail records of one identity 30 seconds apart in one bucket
\* with fail count 2
C9_Witness ==
    \E i \in 1..Len(filtered_data) : \E ee \in fail_pairs(i) :
        \E bucket \in buckets_of(filtered_data[i].k) :
            /\ covers(bucket, ee[1].ts)
            /\ covers(bucket, ee[2].ts)
            /\ bucket.v.fail = 2

\* C10 as claimed: the count shown for a cause label is the number of distinct
\* source paths of filtered Fail records whose text holds the label.
C10_CountIsDistinctPaths ==
    \A i \in 1..Len(cause_values) :
        cause_values[i].v =
            Cardinality({ ev.path : ev \in { e \in events_of(filtered_data) :
                                               /\ ~e.is_pass
                                               /\ cause_values[i].k \in Tokens(e.content) } })

\* C11: for every cause label of the failure-cause view, the paths a click on
\* its bar hands to the drill-down are exactly the source paths of the Fail
\* records of the filtered view whose status text holds the label; each of
\* them is a Fail record of the store that the present outcome and date
\* filters keep, so no filtered-out record and no Pass record is among them.
C11_DrillDownPathsAreFilteredFails ==
    \A i \in 1..Len(cause_counts) :
        /\ Range(cause_counts[i].v) =
              { ev.path : ev \in { e \in events_of(filtered_data) :
                                     /\ ~e.is_pass
                                     /\ cause_counts[i].k \in Tokens(e.content) } }
        /\ \A p \in Range(cause_counts[i].v) :
              \E ev \in events_of(all_data) :
                 /\ ev.path = p
                 /\ ~ev.is_pass
                 /\ Wanted(ev)

\* C11 witness: a cause with a path is shown while the store holds a Fail
\* record with a cause label that the filters leave out
C11_Witness ==
    /\ cause_counts # <<>>
    /\ \E ev \in events_of(all_data) :
          /\ ~ev.is_pass
          /\ ~Wanted(ev)
          /\ chart_cause_labels(ev.content) # <<>>
          /\ ev.path \notin paths_of(cause_counts)

\* C17: after any sequence of folder selections, outcome-filter changes,
\* start- and end-date changes and chart-type changes, once a folder has been
\* selected the filtered view is apply_filters of the present store under the
\* present outcome filter and date bounds, and the dashboard totals and the
\* chart views are those of that filtered view; before any folder is
\* selected the store and the filtered view are empty.
C17_FilteredViewIsCurrent ==
    IF folder_path = NoFolder
    THEN all_data = <<>> /\ filtered_data = <<>>
    ELSE /\ filtered_data = apply_filters(all_data, outcome_filter, start_date, end_date)
         /\ \A ev \in events_of(all_data) : ev \in events_of(filtered_data) <=> Wanted(ev)
         /\ totals = dashboard_totals(filtered_data)
         /\ summary_counts = summary_of(filtered_data)
         /\ grouped = heartbeat_of(filtered_data)
         /\ cause_counts = cause_counts_of(filtered_data)

\* C17 witness: a folder is selected after the outcome filter, both dates and
\* the chart type were changed, and the filtered view differs from the store
C17_Witness ==
    /\ folder_path # NoFolder
    /\ outcome_filter = "Fail"
    /\ start_date # DefaultDate
    /\ end_date # DefaultDate
    /\ chart_type = "Bar"
    /\ events_of(filtered_data) # {}
    /\ events_of(filtered_data) # events_of(all_data)

\* the record ingestion keeps for the status file f, if any
records_of(f) ==
    { ev \in events_of(all_data) : ev.path = path_of(f) }

\* C14 as claimed: whenever select_folder has returned, also by an exception
\* out of a failed ingestion, the selected folder, the store, the cause index
\* and the filtered view describe one folder: with no folder all three are
\* empty, otherwise the store holds exactly the status files under
\* folder_path, the cause index exactly the Fail records among them that
\* have a cause label, and the filtered view only records of the store.
C14_SnapshotOfOneFolder ==
    IF folder_path = NoFolder
    THEN /\ all_data = <<>>
         /\ aggregated_failure_causes = <<>>
         /\ filtered_data = <<>>
    ELSE /\ {ev.path : ev \in events_of(all_data)} =
               {path_of(f) : f \in status_files(folder_path)}
         /\ paths_of(aggregated_failure_causes) =
               { ev.path : ev \in { e \in events_of(all_data) :
                                      /\ ~e.is_pass
                                      /\ chart_cause_labels(e.content) # <<>> } }
         /\ events_of(filtered_data) \subseteq events_of(all_data)

page_count(v) == (Len(v.all_rows) + v.page_size - 1) \div v.page_size

\* the current page is 0 for an empty row list and a page that exists
\* otherwise, and the table shows that page's rows
ValidPage ==
    /\ ~raised
    /\ viewer.page_size > 0
    /\ IF viewer.all_rows = <<>> THEN viewer.current_page = 0
       ELSE viewer.current_page \in 0..(page_count(viewer) - 1)
    /\ viewer.table_rows =
          [i \in 1..Len(viewer.table_rows) |->
              viewer.all_rows[viewer.current_page * viewer.page_size + i]]

\* C12: after any sequence of first_page, prev_page, next_page, last_page,
\* change_page_size and populate_table the current page is valid: 0 when the
\* row list is empty, otherwise between 0 and pageCount - 1 with pageCount =
\* ceil(len(all_rows) / page_size); prev_page on page 0 and next_page on the
\* last page leave the page as it is, and no operation raises.
C12_PageStaysValid ==
    /\ []ValidPage
    /\ [][(PrevPage /\ viewer.current_page = 0) => viewer' = viewer]_vars
    /\ [][(NextPage /\ viewer.current_page + 1 >= page_count(viewer))
            => viewer' = viewer]_vars

\* C12 witness: the viewer is on the second of two pages, which is full
C12_Witness ==
    /\ Len(viewer.all_rows) = 2 * viewer.page_size
    /\ viewer.current_page = 1
    /\ Len(viewer.table_rows) = viewer.page_size

\* C13: for every non-empty row list and every page size, the page shown
\* after last_page is not empty, and last_page followed by first_page shows
\* exactly the rows 0 .. page_size - 1 of the row list and leaves the row
\* list as it was.
C13_LastThenFirst ==
    viewer.all_rows # <<>> =>
        LET at_last == last_page(viewer)
            back == first_page(at_last)
            n == Len(viewer.all_rows)
            shown == IF n < viewer.page_size THEN n ELSE viewer.page_size
        IN /\ at_last.table_rows # <<>>
           /\ at_last.all_rows = viewer.all_rows
           /\ back.all_rows = viewer.all_rows
           /\ back.table_rows = [i \in 1..shown |-> viewer.all_rows[i]]

\* C13 witness: last_page has brought the viewer to a last page that is not
\* the first, over a row list that fills its pages exactly
C13_Witness ==
    /\ viewer.all_rows # <<>>
    /\ viewer.current_page > 0
    /\ viewer.current_page = page_count(viewer) - 1
    /\ Len(viewer.all_rows) = page_count(viewer) * viewer.page_size
    /\ viewer = last_page(viewer)

\* the status file next to the image a row of a viewer shows
status_of(row) ==
    [dir |-> row.img_path.dir,
     file |-> SubSeq(row.img_path.file, 1, Len(row.img_path.file) - 4) \o DOT_TXT]

\* the tabs of images_tab that hold a FolderViewer opened by a drill-down
drill_viewers ==
    { images_tab[i].viewer : i \in { j \in 1..Len(images_tab) :
                                        /\ images_tab[j].viewer # NoViewer
                                        /\ ~images_tab[j].viewer.outcome_filter.is_text } }

\* C16 as claimed: a drill-down into a cause opens without error for every
\* non-empty path list, and every FolderViewer it opens lists only records
\* whose status file is one of the paths of that list.
C16_DrillDownListsOnlyCause ==
    /\ ~raised
    /\ \A v \in drill_viewers :
          \A row \in Range(v.all_rows) :
             \E path \in Range(v.outcome_filter.files) :
                /\ basename(path.dir) = status_of(row).dir
                /\ path.file = status_of(row).file

====
